---- MODULE Spec2Model ----
(***************************************************************************)
(* ArmyQuiz (src/app.py): the timed-quiz submission and auto-finalization  *)
(* lifecycle of a classroom quiz application.                              *)
(*                                                                         *)
(* Encoding of the persisted data                                          *)
(*   - a nullable column is a sequence of length <= 1: <<>> is None and    *)
(*     <<v>> is the value v;                                               *)
(*   - the rows of StudentQuizResult / AnswerSheet for one (room, student) *)
(*     pair are a sequence in primary-key order, so that                   *)
(*     query.filter_by(student_id, room_id).first() is its first element   *)
(*     and a second row for the same pair is representable;                *)
(*   - answers_json, the JSON text of {"0": c0, "1": c1, ...}, is the      *)
(*     sequence <<c0, c1, ...>>; the text "{}" is the empty sequence;      *)
(*   - details_json is the sequence of its per-question objects;           *)
(*   - the Quiz table is kept as the row each room refers to: create_quiz  *)
(*     is the only writer of Room.quiz_id and always points it at a fresh  *)
(*     row, so a row no room refers to is never read again;                *)
(*   - time is in whole seconds.                                           *)
(*                                                                         *)
(* The specifications share the handlers' code.  Spec (two students) and   *)
(* SpecOne (one student, every form and reason) handle one request at a    *)
(* time.  SpecConc runs the requests that write records and sheets as      *)
(* interleaved processes, each with its own SQLAlchemy session: a query    *)
(* reads the committed tables, an assignment or add() is staged in the     *)
(* session, and commit() applies what is staged at once.                   *)
(* SpecJoin interleaves join requests in the same way; SpecNorm runs       *)
(* normalize_questions on one parsed upload.  SpecTwo handles the requests *)
(* of two rooms one at a time.  SpecFault adds a fault of    *)
(* the store: a questions_json that no longer parses.  Requests refused by *)
(* a guard, or ended by an exception, change nothing but the history       *)
(* lastOp.                                                                 *)
(***************************************************************************)
EXTENDS Integers, Sequences, FiniteSets, TLC

\* ----------------------------------------------------------------- bounds
MaxTicks == 1
MaxExtends == 1
MaxRequests == 3
MaxRawLen == 2

\* ------------------------------------------------------ program constants
DefaultDuration == 5
SecondsPerMinute == 60

\* ------------------------------------------------------------ input sets
Students == {1, 2}
Rooms == {1}
None == <<>>
Some(x) == <<x>>
NoReason == "None"
\* the values request.form.get('auto_submit_reason') yields: absent, or a tag
Reasons == {NoReason, "timeup"}
\* the options a student can tick
Choices == {0, 1}
\* questions as normalize_questions emits them: text, options, answer index
Qa == [text |-> "qa", options |-> <<"x", "y">>, answer |-> 1]
Qb == [text |-> "qb", options |-> <<"x", "y">>, answer |-> 0]
\* normalized uploads: no question, two questions
QuizUploads == {<<>>, <<Qa, Qb>>}
\* a posted form: the fields q0, q1, each absent or a choice
FormFields == {0, 1}
Forms == UNION {[D -> Choices] : D \in SUBSET FormFields}
\* the request processes of SpecConc
Procs == {1, 2}
\* the minutes a teacher passes to start_quiz / extend_quiz_post
StartMinutes == {1}
ExtendMinutes == {1}

VARIABLES
    now,              \* datetime.utcnow(), seconds
    is_active,        \* Room.is_active, per room
    quiz,             \* the Quiz row Room.quiz_id refers to, per room: <<>> or <<row>>
    quiz_start_time,  \* Room.quiz_start_time, per room: <<>> or <<t>>
    students,         \* Room.students, the members a request loads, per room
    room_students,    \* the rows of table room_students per (room, student)
    results,          \* StudentQuizResult rows per (room, student)
    sheets,           \* AnswerSheet rows per (room, student)
    lastOp,           \* history: the request handled last ("setup": a join,
                      \* an upload, a start or an extension)
    pc,               \* SpecConc: where each request process stands
    local,            \* SpecConc: each request's session and local variables
    nreq,             \* SpecConc: the interleaved requests received so far
    norm              \* SpecNorm: an upload given to normalize_questions, its outcome

vars == <<now, is_active, quiz, quiz_start_time, students, room_students, results, sheets, lastOp, pc, local, nreq, norm>>

\* --------------------------------------------------------------- helpers
\* Python truthiness of a stored auto_submit_reason (None and '' are falsy)
ReasonTruthy(reason) ==
    reason # NoReason /\ reason # ""

\* json.loads(quiz.questions_json) returns: the stored text is valid JSON
QuestionsParse(r) ==
    quiz[r][1].parses

\* "try: questions = json.loads(quiz.questions_json) if quiz and
\* quiz.questions_json else [] / except Exception: questions = []"; the
\* quiz-taking view reads the same value once its unguarded json.loads returned
QuestionsOf(r) ==
    IF quiz[r] = None \/ ~QuestionsParse(r) THEN <<>> ELSE quiz[r][1].questions

DurationOf(r) ==
    quiz[r][1].duration

\* mutation of Remaining: the elapsed time is added
RemainingMutC21(t, start, duration) ==
    LET elapsed == t - start
        left == duration * SecondsPerMinute + elapsed
    IN  IF left > 0 THEN left ELSE 0
\* mutation of Remaining: the duration is taken as seconds
RemainingMutC13(t, start, duration) ==
    LET elapsed == t - start
        left == duration - elapsed
    IN  IF left > 0 THEN left ELSE 0
\* remaining = max(0, quiz.duration*60 - elapsed)
Remaining(t, start, duration) ==
    LET elapsed == t - start
        left == duration * SecondsPerMinute - elapsed
    IN  IF left > 0 THEN left ELSE 0

\* mutation of Existing: no row ever counts as submitted
ExistingMutC1(row) ==
    FALSE
\* "r.answers_json and r.answers_json != '{}'": the row counts as submitted
Existing(row) ==
    row.answers_json # <<>>

\* mutation of AutoAnswers: the first question defaults to option 0
AutoAnswersMutC3(questions) ==
    [i \in 1..Len(questions) |-> IF i = 1 THEN 0 ELSE -1]
\* {str(i): -1 for i in range(len(questions))}
AutoAnswers(questions) ==
    [i \in 1..Len(questions) |-> -1]

\* the details list finalize builds: every question unanswered and wrong
AutoDetails(questions) ==
    [i \in 1..Len(questions) |->
        [index |-> i - 1,
         question |-> questions[i].text,
         options |-> questions[i].options,
         correct_answer |-> questions[i].answer,
         student_choice |-> -1,
         correct |-> FALSE]]

\* finalize_room_submissions, loop body, the StudentQuizResult part
FinalizeResult(rrows, questions) ==
    IF rrows = <<>>
    THEN <<[score |-> 0, answers_json |-> AutoAnswers(questions), started |-> None]>>
    ELSE IF Existing(rrows[1])
         THEN rrows
         ELSE [rrows EXCEPT ![1].score = 0,
                            ![1].answers_json = AutoAnswers(questions)]

\* finalize_room_submissions, loop body, the AnswerSheet part
FinalizeSheet(rrows, srows, questions, t) ==
    IF rrows # <<>> /\ Existing(rrows[1])
    THEN srows
    ELSE IF srows = <<>>
         THEN <<[score |-> 0, details_json |-> AutoDetails(questions),
                 auto_submit_reason |-> "auto", created_at |-> t]>>
         ELSE [srows EXCEPT ![1].score = 0,
                            ![1].details_json = AutoDetails(questions),
                            ![1].created_at = t,
                            ![1].auto_submit_reason =
                                IF ReasonTruthy(@) THEN @ ELSE "auto"]

\* mutation of FinalizeResults: a room whose quiz was never started is skipped
FinalizeResultsMutC29(res, r) ==
    IF quiz[r] = None \/ quiz_start_time[r] = None THEN res
    ELSE [res EXCEPT ![r] = [s \in Students |->
            IF s \in students[r] THEN FinalizeResult(res[r][s], QuestionsOf(r))
            ELSE res[r][s]]]
\* finalize_room_submissions(room) on tables res / sh: the new tables
FinalizeResults(res, r) ==
    IF quiz[r] = None THEN res
    ELSE [res EXCEPT ![r] = [s \in Students |->
            IF s \in students[r] THEN FinalizeResult(res[r][s], QuestionsOf(r))
            ELSE res[r][s]]]

\* mutation of FinalizeSheets: the sheet is looked up by student_id alone, so
\* the members' sheets of every room are rewritten
FinalizeSheetsMutC25(res, sh, r, t) ==
    IF quiz[r] = None THEN sh
    ELSE [o \in DOMAIN sh |-> [s \in Students |->
            IF s \in students[r]
            THEN FinalizeSheet(res[o][s], sh[o][s], QuestionsOf(r), t)
            ELSE sh[o][s]]]
FinalizeSheets(res, sh, r, t) ==
    IF quiz[r] = None THEN sh
    ELSE [sh EXCEPT ![r] = [s \in Students |->
            IF s \in students[r]
            THEN FinalizeSheet(res[r][s], sh[r][s], QuestionsOf(r), t)
            ELSE sh[r][s]]]

\* start_quiz_student, "record start time"
RecordStart(rrows, t) ==
    IF rrows = <<>>
    THEN <<[score |-> 0, answers_json |-> <<>>, started |-> Some(t)]>>
    ELSE IF rrows[1].started = None
         THEN [rrows EXCEPT ![1].started = Some(t)]
         ELSE rrows

\* int(request.form.get(f'q{i}', -1))
FormGet(form, i) ==
    IF i \in DOMAIN form THEN form[i] ELSE -1

\* answers = {str(i): int(request.form.get(f'q{i}', -1)) for i in range(len(questions))}
PostedAnswers(form, questions) ==
    [i \in 1..Len(questions) |-> FormGet(form, i - 1)]

RECURSIVE CountCorrect(_, _, _)
CountCorrect(answers, questions, n) ==
    IF n = 0 THEN 0
    ELSE CountCorrect(answers, questions, n - 1)
         + (IF answers[n] = questions[n].answer THEN 1 ELSE 0)

\* mutation of Score: only the first question is counted
ScoreMutC10(answers, questions) ==
    IF Len(questions) > 0 /\ answers[1] = questions[1].answer THEN 1 ELSE 0
\* score = sum(1 for i, q in enumerate(questions) if answers[str(i)] == q['answer'])
Score(answers, questions) ==
    CountCorrect(answers, questions, Len(questions))

\* the details list a submit builds
PostedDetails(answers, questions) ==
    [i \in 1..Len(questions) |->
        [index |-> i - 1,
         question |-> questions[i].text,
         options |-> questions[i].options,
         correct_answer |-> questions[i].answer,
         student_choice |-> answers[i],
         correct |-> (answers[i] = questions[i].answer)]]

\* mutation of PostedSheet: every submit adds a sheet
PostedSheetMutC11(srows, answers, questions, reason, t) ==
    Append(srows, [score |-> Score(answers, questions),
                   details_json |-> PostedDetails(answers, questions),
                   auto_submit_reason |-> reason, created_at |-> t])
\* the AnswerSheet upsert of a submit
PostedSheet(srows, answers, questions, reason, t) ==
    IF srows = <<>>
    THEN <<[score |-> Score(answers, questions),
            details_json |-> PostedDetails(answers, questions),
            auto_submit_reason |-> reason, created_at |-> t]>>
    ELSE [srows EXCEPT ![1].score = Score(answers, questions),
                       ![1].details_json = PostedDetails(answers, questions),
                       ![1].created_at = t,
                       ![1].auto_submit_reason =
                           IF ReasonTruthy(reason) THEN reason ELSE @]

\* mutation of CanTakeQuiz: membership of the room is not looked at
CanTakeQuizMutC20(s, r) ==
    /\ quiz[r] # None
    /\ quiz_start_time[r] # None
\* the guard of start_quiz_student: a member, a quiz, a start time
CanTakeQuiz(s, r) ==
    /\ s \in students[r]
    /\ quiz[r] # None
    /\ quiz_start_time[r] # None

\* mutation of Expired: "if remaining < 0", which max(0, ...) never is
ExpiredMutC5(r) ==
    Remaining(now, quiz_start_time[r][1], DurationOf(r)) < 0
\* "if remaining <= 0" of the quiz-taking view
Expired(r) ==
    Remaining(now, quiz_start_time[r][1], DurationOf(r)) <= 0

\* a request process at rest: no room, no session content
IdleLocal ==
    [room |-> 0, student |-> 0, method |-> "", form |-> <<>>, questions |-> <<>>,
     row |-> 0, members |-> {}, todo |-> {}, pending |-> <<>>]

\* ------------------------------------------- normalize_questions (pure)
(* A parsed upload is [json, is_list, items]: whether json.loads accepted   *)
(* the text, whether the value is a list, and its elements.  An element is  *)
(* [is_dict, text, question, q, opts, answer]; an absent or empty string    *)
(* key is "".  opts is [kind, items]: kind "none" (absent or null), "list", *)
(* "dict" (items in insertion order, each [key, value]) or "other".  answer *)
(* is [kind, int, str]: kind "int", "str" or "other" (absent, null, float). *)
(* The string methods the normalizer calls are tabulated on the strings an  *)
(* upload of this model can contain.                                        *)
RQ(text, opts, answer) ==
    [is_dict |-> TRUE, text |-> text, question |-> "", q |-> "",
     opts |-> opts, answer |-> answer]

ListOpts(values) ==
    [kind |-> "list", items |-> [i \in 1..Len(values) |-> [key |-> "", value |-> values[i]]]]

DictOpts(pairs) ==
    [kind |-> "dict", items |-> pairs]

NoOpts == [kind |-> "none", items |-> <<>>]
BadOpts == [kind |-> "other", items |-> <<>>]

IntAns(k) == [kind |-> "int", int |-> k, str |-> ""]
StrAns(s) == [kind |-> "str", int |-> 0, str |-> s]
NoAns == [kind |-> "other", int |-> 0, str |-> ""]

RawList(items) == [json |-> TRUE, is_list |-> TRUE, items |-> items]
NotAList == [json |-> TRUE, is_list |-> FALSE, items |-> <<>>]
BadJson == [json |-> FALSE, is_list |-> FALSE, items |-> <<>>]

\* ans.strip().lower(), where it is not the string itself
StripLowerTable == (" B " :> "b") @@ ("B" :> "b")
StripLower(s) ==
    IF s \in DOMAIN StripLowerTable THEN StripLowerTable[s] ELSE s

\* len(a) == 1 and a.isalpha(), with ord(a) - ord('a')
LetterPos == ("a" :> 0) @@ ("b" :> 1) @@ ("c" :> 2) @@ ("d" :> 3) @@ ("x" :> 23) @@ ("y" :> 24)
\* a.isdigit(), with int(a)
DigitValue == ("0" :> 0) @@ ("1" :> 1) @@ ("7" :> 7)

\* the keys of an options object in sorted() order, and the preferred letters
SortedKeys == <<"a", "b", "c", "d", "k1", "k2">>
LetterKeys == <<"a", "b", "c", "d">>

HasKey(items, k) ==
    \E i \in 1..Len(items) : items[i].key = k

ValueOf(items, k) ==
    items[CHOOSE i \in 1..Len(items) : items[i].key = k].value

\* [opts[k] for k in keyseq if k in opts]
RECURSIVE ValuesInOrder(_, _)
ValuesInOrder(items, keyseq) ==
    IF keyseq = <<>> THEN <<>>
    ELSE (IF HasKey(items, Head(keyseq)) THEN <<ValueOf(items, Head(keyseq))>> ELSE <<>>)
         \o ValuesInOrder(items, Tail(keyseq))

\* options_list of a question whose options are a list or an object
OptionsList(opts) ==
    IF opts.kind = "list"
    THEN [i \in 1..Len(opts.items) |-> opts.items[i].value]
    ELSE IF ValuesInOrder(opts.items, LetterKeys) # <<>>
         THEN ValuesInOrder(opts.items, LetterKeys)
         ELSE ValuesInOrder(opts.items, SortedKeys)

\* options_list.index(ans): the first position holding ans, -1 for ValueError
ListIndex(options, ans) ==
    IF \E i \in 1..Len(options) : options[i] = ans
    THEN (CHOOSE i \in 1..Len(options) :
             /\ options[i] = ans
             /\ \A j \in 1..(i - 1) : options[j] # ans) - 1
    ELSE -1

\* mutation of AnswerIndex: an option's literal text is tried before the letter
AnswerIndexMutC22(answer, options) ==
    IF answer.kind = "int"
    THEN [found |-> TRUE, index |-> answer.int]
    ELSE IF answer.kind = "str"
         THEN LET a == StripLower(answer.str)
              IN  IF ListIndex(options, answer.str) >= 0
                  THEN [found |-> TRUE, index |-> ListIndex(options, answer.str)]
                  ELSE IF a \in DOMAIN LetterPos
                       THEN [found |-> TRUE, index |-> LetterPos[a]]
                       ELSE IF a \in DOMAIN DigitValue
                            THEN [found |-> TRUE, index |-> DigitValue[a]]
                            ELSE [found |-> FALSE, index |-> -1]
         ELSE [found |-> FALSE, index |-> -1]
\* the answer_index of a question: [found, index]; found is FALSE where the
\* code raises "unknown answer format" or "missing answer"
AnswerIndex(answer, options) ==
    IF answer.kind = "int"
    THEN [found |-> TRUE, index |-> answer.int]
    ELSE IF answer.kind = "str"
         THEN LET a == StripLower(answer.str)
              IN  IF a \in DOMAIN LetterPos
                  THEN [found |-> TRUE, index |-> LetterPos[a]]
                  ELSE IF ListIndex(options, answer.str) >= 0
                       THEN [found |-> TRUE, index |-> ListIndex(options, answer.str)]
                       ELSE IF a \in DOMAIN DigitValue
                            THEN [found |-> TRUE, index |-> DigitValue[a]]
                            ELSE [found |-> FALSE, index |-> -1]
         ELSE [found |-> FALSE, index |-> -1]

\* q.get('text') or q.get('question') or q.get('q')
TextOf(q) ==
    IF q.text # "" THEN q.text ELSE IF q.question # "" THEN q.question ELSE q.q

\* mutation of InRange: the upper end is len(options_list) inclusive
InRangeMutC19(index, options) ==
    0 <= index /\ index <= Len(options)
\* 0 <= answer_index < len(options_list)
InRange(index, options) ==
    0 <= index /\ index < Len(options)

\* the ValueError one element raises, "" when it is appended to out
QuestionError(q) ==
    IF ~q.is_dict THEN "is not an object"
    ELSE IF TextOf(q) = "" THEN "is missing text"
    ELSE IF q.opts.kind = "none" THEN "is missing options"
    ELSE IF q.opts.kind = "other" THEN "has invalid options type"
    ELSE IF q.answer.kind = "other" THEN "missing answer"
    ELSE IF ~AnswerIndex(q.answer, OptionsList(q.opts)).found THEN "has unknown answer format"
    ELSE IF ~InRange(AnswerIndex(q.answer, OptionsList(q.opts)).index, OptionsList(q.opts))
         THEN "out of range"
    ELSE ""

\* {'text': text, 'options': options_list, 'answer': answer_index}
NormalQuestion(q) ==
    [text |-> TextOf(q), options |-> OptionsList(q.opts),
     answer |-> AnswerIndex(q.answer, OptionsList(q.opts)).index]

\* the loop of normalize_questions from element i on (1-based), out so far
RECURSIVE NormalizeFrom(_, _, _)
NormalizeFrom(items, i, out) ==
    IF i > Len(items)
    THEN [ok |-> TRUE, out |-> out, error |-> "", index |-> -1]
    ELSE IF QuestionError(items[i]) # ""
         THEN [ok |-> FALSE, out |-> <<>>, error |-> QuestionError(items[i]), index |-> i - 1]
         ELSE NormalizeFrom(items, i + 1, Append(out, NormalQuestion(items[i])))

\* normalize_questions(raw): the list returned, or the ValueError raised with
\* the element index its message carries (-1: the message carries none)
NormalizeQuestions(raw) ==
    IF ~raw.is_list
    THEN [ok |-> FALSE, out |-> <<>>, error |-> "must be a list", index |-> -1]
    ELSE NormalizeFrom(raw.items, 1, <<>>)

\* raw elements that normalize to Qa and Qb
RawQa == RQ("qa", ListOpts(<<"x", "y">>), IntAns(1))
RawQb == RQ("qb", DictOpts(<<[key |-> "b", value |-> "y"], [key |-> "a", value |-> "x"]>>), StrAns("a"))

\* the elements the normalizer is run on: the three option shapes, the answer
\* shapes, and every way an element is refused
NormQuestions ==
    {RawQa, RawQb,
     RQ("q3", ListOpts(<<"x", "y">>), StrAns(" B ")),
     RQ("q4", ListOpts(<<"yes", "no">>), StrAns("no")),
     RQ("q5", ListOpts(<<"yes", "no">>), StrAns("1")),
     RQ("q6", ListOpts(<<"yes", "no">>), StrAns("7")),
     RQ("q7", ListOpts(<<"x", "y">>), IntAns(2)),
     RQ("q8", ListOpts(<<"x", "y">>), IntAns(-1)),
     RQ("q9", DictOpts(<<[key |-> "k2", value |-> "yes"], [key |-> "k1", value |-> "no"]>>),
        StrAns("yes")),
     RQ("q10", DictOpts(<<[key |-> "k1", value |-> "no"], [key |-> "a", value |-> "yes"]>>),
        IntAns(0)),
     RQ("q11", ListOpts(<<"x", "y">>), StrAns("y")),
     RQ("q18", ListOpts(<<"b", "a">>), StrAns("a")),
     RQ("", ListOpts(<<"x", "y">>), IntAns(0)),
     [RawQa EXCEPT !.text = "", !.question = "qa"],
     RQ("q14", NoOpts, IntAns(0)),
     RQ("q15", BadOpts, IntAns(0)),
     RQ("q16", ListOpts(<<"x", "y">>), NoAns),
     RQ("q17", ListOpts(<<"x", "y">>), StrAns("maybe")),
     [RawQa EXCEPT !.is_dict = FALSE]}

\* the parsed values normalize_questions is run on
NormInputs ==
    {NotAList} \cup {RawList(items) : items \in UNION {[1..n -> NormQuestions] : n \in 0..MaxRawLen}}

\* the texts a teacher uploads in the lifecycle specifications
RawUploads ==
    {BadJson, NotAList, RawList(<<>>), RawList(<<RawQa, RawQb>>),
     RawList(<<RawQa, RQ("q7", ListOpts(<<"x", "y">>), IntAns(2))>>)}

\* norm while no upload is being normalized
NoNorm == [raw |-> NotAList, done |-> FALSE, result |-> NormalizeQuestions(NotAList)]

\* ------------------------------------------------------------------ Init
Init ==
    /\ now = 0
    /\ is_active = [r \in Rooms |-> TRUE]
    /\ quiz = [r \in Rooms |-> None]
    /\ quiz_start_time = [r \in Rooms |-> None]
    /\ students = [r \in Rooms |-> {}]
    /\ room_students = [r \in Rooms |-> [s \in Students |-> 0]]
    /\ results = [r \in Rooms |-> [s \in Students |-> <<>>]]
    /\ sheets = [r \in Rooms |-> [s \in Students |-> <<>>]]
    /\ lastOp = "init"
    /\ pc = [p \in Procs |-> "idle"]
    /\ local = [p \in Procs |-> IdleLocal]
    /\ nreq = 0
    /\ norm = NoNorm

\* --------------------------------------------------------------- actions
\* mutation of Tick: a timer finalizes every room as the clock advances
TickMutC23 ==
    /\ now + SecondsPerMinute <= MaxTicks * SecondsPerMinute
    /\ now' = now + SecondsPerMinute
    /\ results' = [r \in DOMAIN results |-> FinalizeResults(results, r)[r]]
    /\ sheets' = [r \in DOMAIN sheets |-> FinalizeSheets(results, sheets, r, now)[r]]
    /\ UNCHANGED <<is_active, quiz, quiz_start_time, students, room_students, lastOp, pc, local, nreq, norm>>
\* the clock advances by a minute; no request is handled
Tick ==
    /\ now + SecondsPerMinute <= MaxTicks * SecondsPerMinute
    /\ now' = now + SecondsPerMinute
    /\ UNCHANGED <<is_active, quiz, quiz_start_time, students, room_students, results, sheets, lastOp, pc, local, nreq, norm>>

\* mutation of ActiveRoom: the room is looked up by its code alone
ActiveRoomMutC16(r) ==
    TRUE
\* Room.query.filter_by(code=code, is_active=True).first() finds the room
ActiveRoom(r) ==
    is_active[r]

\* join_room, POST with the code of an active room
JoinRoom(s, r) ==
    /\ ActiveRoom(r)
    /\ students' = [students EXCEPT ![r] = @ \cup {s}]
    /\ room_students' = [room_students EXCEPT ![r][s] = IF s \in students[r] THEN @ ELSE @ + 1]
    /\ lastOp' = "setup"
    /\ UNCHANGED <<now, is_active, quiz, quiz_start_time, results, sheets, pc, local, nreq, norm>>

\* join_room, POST with the code of a closed room: "Invalid or closed room."
JoinDenied(s, r) ==
    /\ ~ActiveRoom(r)
    /\ lastOp' = "join_denied"
    /\ UNCHANGED <<now, is_active, quiz, quiz_start_time, students, room_students, results, sheets, pc, local, nreq, norm>>

\* mutation of CreateQuiz: the upload also clears the room's start time
CreateQuizMutC30(r, qs) ==
    /\ quiz' = [quiz EXCEPT ![r] = Some([questions |-> qs, parses |-> TRUE, duration |-> DefaultDuration])]
    /\ quiz_start_time' = [quiz_start_time EXCEPT ![r] = None]
    /\ lastOp' = "setup"
    /\ UNCHANGED <<now, is_active, students, room_students, results, sheets, pc, local, nreq, norm>>
\* create_quiz, POST with questions that normalize to qs
CreateQuiz(r, qs) ==
    /\ quiz' = [quiz EXCEPT ![r] = Some([questions |-> qs, parses |-> TRUE, duration |-> DefaultDuration])]
    /\ lastOp' = "setup"
    /\ UNCHANGED <<now, is_active, quiz_start_time, students, room_students, results, sheets, pc, local, nreq, norm>>

\* mutation of UploadAccepted: the parsed value is stored without normalizing
UploadAcceptedMutC18(raw) ==
    raw.json
\* the try block of create_quiz: json.loads and normalize_questions both return
UploadAccepted(raw) ==
    raw.json /\ NormalizeQuestions(raw).ok

\* create_quiz, POST of an upload: stored when accepted, else the form is
\* rendered again with "Invalid questions JSON: ..."
UploadQuiz(r, raw) ==
    IF UploadAccepted(raw)
    THEN CreateQuiz(r, NormalizeQuestions(raw).out)
    ELSE /\ lastOp' = "upload_invalid"
         /\ UNCHANGED <<now, is_active, quiz, quiz_start_time, students, room_students, results, sheets, pc, local, nreq, norm>>

\* mutation of HasQuiz: the start routes do not look at room.quiz_id
HasQuizMutC15(r) ==
    TRUE
\* "if not room.quiz_id" of the start routes is passed
HasQuiz(r) ==
    quiz[r] # None

\* start_quiz / start_quiz_post with the given minutes
StartQuiz(r, minutes) ==
    /\ HasQuiz(r)
    /\ quiz' = IF quiz[r] = None THEN quiz ELSE [quiz EXCEPT ![r][1].duration = minutes]
    /\ quiz_start_time' = [quiz_start_time EXCEPT ![r] = Some(now)]
    /\ lastOp' = "setup"
    /\ UNCHANGED <<now, is_active, students, room_students, results, sheets, pc, local, nreq, norm>>

\* extend_quiz_post with the given minutes
ExtendQuizPost(r, minutes) ==
    /\ quiz_start_time[r] # None
    /\ quiz_start_time[r][1] - minutes * SecondsPerMinute >= 0 - MaxExtends * SecondsPerMinute
    /\ quiz_start_time' = [quiz_start_time EXCEPT
            ![r] = Some(@[1] - minutes * SecondsPerMinute)]
    /\ lastOp' = "setup"
    /\ UNCHANGED <<now, is_active, quiz, students, room_students, results, sheets, pc, local, nreq, norm>>

\* close_room (GET): marks the room inactive, nothing else
CloseRoom(r) ==
    /\ is_active' = [is_active EXCEPT ![r] = FALSE]
    /\ lastOp' = "close_room"
    /\ UNCHANGED <<now, quiz, quiz_start_time, students, room_students, results, sheets, pc, local, nreq, norm>>

\* close_room_post: marks the room inactive, then finalizes
CloseRoomPost(r) ==
    /\ is_active' = [is_active EXCEPT ![r] = FALSE]
    /\ results' = FinalizeResults(results, r)
    /\ sheets' = FinalizeSheets(results, sheets, r, now)
    /\ lastOp' = "close_room_post"
    /\ UNCHANGED <<now, quiz, quiz_start_time, students, room_students, pc, local, nreq, norm>>

\* start_quiz_student, GET
StudentGet(s, r) ==
    /\ CanTakeQuiz(s, r)
    /\ QuestionsParse(r)
    /\ LET started == [results EXCEPT ![r][s] = RecordStart(@, now)]
       IN  IF Expired(r)
           THEN /\ results' = FinalizeResults(started, r)
                /\ sheets' = FinalizeSheets(started, sheets, r, now)
           ELSE /\ results' = started
                /\ UNCHANGED sheets
    /\ lastOp' = IF Expired(r) THEN "get_expired" ELSE "get_quiz"
    /\ UNCHANGED <<now, is_active, quiz, quiz_start_time, students, room_students, pc, local, nreq, norm>>

\* start_quiz_student, GET or POST, refused by its guards: "Access denied!"
\* or "Quiz has not started yet."
ViewDenied(s, r) ==
    /\ ~CanTakeQuiz(s, r)
    /\ lastOp' = "view_denied"
    /\ UNCHANGED <<now, is_active, quiz, quiz_start_time, students, room_students, results, sheets, pc, local, nreq, norm>>

\* start_quiz_student, GET or POST, past its guards with a questions_json that
\* is not JSON: json.loads raises before anything is written, the request ends
\* with an internal server error
ViewError(s, r) ==
    /\ CanTakeQuiz(s, r)
    /\ ~QuestionsParse(r)
    /\ lastOp' = "view_error"
    /\ UNCHANGED <<now, is_active, quiz, quiz_start_time, students, room_students, results, sheets, pc, local, nreq, norm>>

\* student_result: reads the record's score and, under try/except, the number
\* of questions; writes nothing and renders the page
StudentResult(s, r) ==
    /\ lastOp' = "result_view"
    /\ UNCHANGED <<now, is_active, quiz, quiz_start_time, students, room_students, results, sheets, pc, local, nreq, norm>>

\* start_quiz_student, POST of a form
StudentPost(s, r, form, reason) ==
    /\ CanTakeQuiz(s, r)
    /\ QuestionsParse(r)
    /\ LET questions == QuestionsOf(r)
           answers == PostedAnswers(form, questions)
           started == RecordStart(results[r][s], now)
       IN  /\ results' = [results EXCEPT ![r][s] =
                    [started EXCEPT ![1].score = Score(answers, questions),
                                    ![1].answers_json = answers]]
           /\ sheets' = [sheets EXCEPT ![r][s] =
                    PostedSheet(@, answers, questions, reason, now)]
    /\ lastOp' = IF Expired(r) THEN "post_late"
                 ELSE IF sheets[r][s] # <<>> THEN "post_again" ELSE "post"
    /\ UNCHANGED <<now, is_active, quiz, quiz_start_time, students, room_students, pc, local, nreq, norm>>

\* the form the two-student specification posts: both fields ticked 1
LifecycleForms == {f \in Forms : DOMAIN f = {0, 1} /\ f[0] = 1 /\ f[1] = 1}

\* the requests of students SS, posting forms FS with reasons RS
NextFor(SS, FS, RS) ==
    \/ Tick
    \/ \E s \in SS, r \in Rooms : JoinRoom(s, r)
    \/ \E r \in Rooms, qs \in QuizUploads : CreateQuiz(r, qs)
    \/ \E r \in Rooms, m \in StartMinutes : StartQuiz(r, m)
    \/ \E r \in Rooms, m \in ExtendMinutes : ExtendQuizPost(r, m)
    \/ \E r \in Rooms : CloseRoom(r)
    \/ \E r \in Rooms : CloseRoomPost(r)
    \/ \E s \in SS, r \in Rooms : StudentGet(s, r)
    \/ \E s \in SS, r \in Rooms, f \in FS, a \in RS : StudentPost(s, r, f, a)

Next ==
    NextFor(Students, LifecycleForms, {NoReason})

Spec == Init /\ [][Next]_vars

\* one student, every form, every reason, every upload, the refused requests
NextOne ==
    \/ NextFor({1}, Forms, Reasons)
    \/ \E r \in Rooms, raw \in RawUploads : UploadQuiz(r, raw)
    \/ \E r \in Rooms : JoinDenied(1, r)
    \/ \E r \in Rooms : ViewDenied(1, r)

SpecOne == Init /\ [][NextOne]_vars

\* ------------------------------------------- a damaged blob (SpecFault)
\* the stored questions_json of a room's quiz is damaged outside the
\* application (the column is free text): it no longer parses
CorruptQuestions(r) ==
    /\ quiz[r] # None
    /\ QuestionsParse(r)
    /\ quiz' = [quiz EXCEPT ![r][1].parses = FALSE]
    /\ lastOp' = "fault"
    /\ UNCHANGED <<now, is_active, quiz_start_time, students, room_students, results, sheets, pc, local, nreq, norm>>

\* one student's requests, with the blob damaged at any moment
NextFault ==
    \/ NextFor({1}, LifecycleForms, {NoReason})
    \/ \E r \in Rooms : CorruptQuestions(r)
    \/ \E r \in Rooms : ViewError(1, r)
    \/ \E r \in Rooms : StudentResult(1, r)

SpecFault == Init /\ [][NextFault]_vars

\* ------------------------------------------------- two rooms (SpecTwo)
\* two rooms, each with its own code, membership, quiz and start time
TwoRooms == {1, 2}

InitTwo ==
    /\ now = 0
    /\ is_active = [r \in TwoRooms |-> TRUE]
    /\ quiz = [r \in TwoRooms |-> None]
    /\ quiz_start_time = [r \in TwoRooms |-> None]
    /\ students = [r \in TwoRooms |-> {}]
    /\ room_students = [r \in TwoRooms |-> [s \in Students |-> 0]]
    /\ results = [r \in TwoRooms |-> [s \in Students |-> <<>>]]
    /\ sheets = [r \in TwoRooms |-> [s \in Students |-> <<>>]]
    /\ lastOp = "init"
    /\ pc = [p \in Procs |-> "idle"]
    /\ local = [p \in Procs |-> IdleLocal]
    /\ nreq = 0
    /\ norm = NoNorm

\* the requests of one student, who may join both rooms, and of the teacher,
\* all at one instant: a quiz runs out here by extend_quiz_post, which moves
\* its start time back
NextTwo ==
    \/ \E r \in TwoRooms : JoinRoom(1, r)
    \/ \E r \in TwoRooms : CreateQuiz(r, <<Qa, Qb>>)
    \/ \E r \in TwoRooms, m \in StartMinutes : StartQuiz(r, m)
    \/ \E r \in TwoRooms, m \in ExtendMinutes : ExtendQuizPost(r, m)
    \/ \E r \in TwoRooms : CloseRoom(r)
    \/ \E r \in TwoRooms : CloseRoomPost(r)
    \/ \E r \in TwoRooms : StudentGet(1, r)
    \/ \E r \in TwoRooms, f \in LifecycleForms : StudentPost(1, r, f, NoReason)

SpecTwo == InitTwo /\ [][NextTwo]_vars

\* ---------------------------------------------- normalizer runs (SpecNorm)
InitNorm ==
    /\ now = 0
    /\ is_active = [r \in Rooms |-> TRUE]
    /\ quiz = [r \in Rooms |-> None]
    /\ quiz_start_time = [r \in Rooms |-> None]
    /\ students = [r \in Rooms |-> {}]
    /\ room_students = [r \in Rooms |-> [s \in Students |-> 0]]
    /\ results = [r \in Rooms |-> [s \in Students |-> <<>>]]
    /\ sheets = [r \in Rooms |-> [s \in Students |-> <<>>]]
    /\ lastOp = "init"
    /\ pc = [p \in Procs |-> "idle"]
    /\ local = [p \in Procs |-> IdleLocal]
    /\ nreq = 0
    /\ norm \in {[NoNorm EXCEPT !.raw = raw] : raw \in NormInputs}

\* one call normalize_questions(raw)
Normalize ==
    /\ ~norm.done
    /\ norm' = [norm EXCEPT !.done = TRUE, !.result = NormalizeQuestions(norm.raw)]
    /\ UNCHANGED <<now, is_active, quiz, quiz_start_time, students, room_students, results, sheets, lastOp, pc, local, nreq>>

NextNorm ==
    Normalize

SpecNorm == InitNorm /\ [][NextNorm]_vars

\* ------------------------------------------- interleaved requests (SpecConc)
\* the columns the unit of work writes back for a loaded row: the changed ones
DirtyResult(old, new) ==
    {c \in {"score", "answers_json", "started"} : old[c] # new[c]}

DirtySheet(old, new) ==
    {c \in {"score", "details_json", "auto_submit_reason", "created_at"} : old[c] # new[c]}

\* what the session holds once handler code has turned the rows it read (old)
\* into new: an INSERT of the added row, or an UPDATE of the first row
StagedResult(s, old, new) ==
    IF Len(new) > Len(old)
    THEN <<[tbl |-> "result", student |-> s, kind |-> "insert", idx |-> 0,
            cols |-> {}, row |-> new[Len(new)]]>>
    ELSE IF new = old
         THEN <<>>
         ELSE <<[tbl |-> "result", student |-> s, kind |-> "update", idx |-> 1,
                 cols |-> DirtyResult(old[1], new[1]), row |-> new[1]]>>

StagedSheet(s, old, new) ==
    IF Len(new) > Len(old)
    THEN <<[tbl |-> "sheet", student |-> s, kind |-> "insert", idx |-> 0,
            cols |-> {}, row |-> new[Len(new)]]>>
    ELSE IF new = old
         THEN <<>>
         ELSE <<[tbl |-> "sheet", student |-> s, kind |-> "update", idx |-> 1,
                 cols |-> DirtySheet(old[1], new[1]), row |-> new[1]]>>

\* one INSERT / UPDATE ... WHERE id = row w.idx, on the rows of a pair
ApplyResultWrite(rows, w) ==
    IF w.kind = "insert"
    THEN Append(rows, w.row)
    ELSE [rows EXCEPT ![w.idx] =
            [score |-> IF "score" \in w.cols THEN w.row.score ELSE @.score,
             answers_json |-> IF "answers_json" \in w.cols THEN w.row.answers_json
                              ELSE @.answers_json,
             started |-> IF "started" \in w.cols THEN w.row.started ELSE @.started]]

ApplySheetWrite(rows, w) ==
    IF w.kind = "insert"
    THEN Append(rows, w.row)
    ELSE [rows EXCEPT ![w.idx] =
            [score |-> IF "score" \in w.cols THEN w.row.score ELSE @.score,
             details_json |-> IF "details_json" \in w.cols THEN w.row.details_json
                              ELSE @.details_json,
             auto_submit_reason |-> IF "auto_submit_reason" \in w.cols
                                    THEN w.row.auto_submit_reason
                                    ELSE @.auto_submit_reason,
             created_at |-> IF "created_at" \in w.cols THEN w.row.created_at
                            ELSE @.created_at]]

\* db.session.commit(): the staged writes for table tbl and student s, in order
RECURSIVE Committed(_, _, _, _)
Committed(rows, tbl, s, pending) ==
    IF pending = <<>> THEN rows
    ELSE LET w == Head(pending)
             next == IF w.tbl = tbl /\ w.student = s
                     THEN IF tbl = "result" THEN ApplyResultWrite(rows, w)
                          ELSE ApplySheetWrite(rows, w)
                     ELSE rows
         IN  Committed(next, tbl, s, Tail(pending))

CommitResults(r, pending) ==
    [results EXCEPT ![r] = [s \in Students |-> Committed(@[s], "result", s, pending)]]

CommitSheets(r, pending) ==
    [sheets EXCEPT ![r] = [s \in Students |-> Committed(@[s], "sheet", s, pending)]]

\* mutation of FinalizeDone: the commit (and return) sits inside the loop
FinalizeDoneMutC9(todo) ==
    TRUE
\* "db.session.commit()" of finalize stands after its loop: the loop is over
FinalizeDone(todo) ==
    todo = {}

\* the worker that takes the next request: the first one at rest
FreeProc(p) ==
    /\ pc[p] = "idle"
    /\ \A q \in Procs : q < p => pc[q] # "idle"

\* close_room_post up to its first commit: the room is inactive, finalize is next
ConcClose(p, r) ==
    /\ FreeProc(p)
    /\ nreq < MaxRequests
    /\ nreq' = nreq + 1
    /\ is_active' = [is_active EXCEPT ![r] = FALSE]
    /\ pc' = [pc EXCEPT ![p] = "fin_load"]
    /\ local' = [local EXCEPT ![p] = [IdleLocal EXCEPT !.room = r]]
    /\ UNCHANGED <<now, quiz, quiz_start_time, students, room_students, results, sheets, lastOp, norm>>

\* finalize_room_submissions up to its loop: the quiz and the members are read
FinLoad(p) ==
    /\ pc[p] = "fin_load"
    /\ LET r == local[p].room
       IN  IF quiz[r] = None
           THEN /\ pc' = [pc EXCEPT ![p] = "idle"]
                /\ local' = [local EXCEPT ![p] = IdleLocal]
           ELSE /\ pc' = [pc EXCEPT ![p] = "fin_loop"]
                /\ local' = [local EXCEPT ![p].questions = QuestionsOf(r),
                                          ![p].members = students[r],
                                          ![p].todo = students[r]]
    /\ UNCHANGED <<now, is_active, quiz, quiz_start_time, students, room_students, results, sheets, lastOp, nreq, norm>>

\* one pass of the loop of finalize_room_submissions, for member s
FinStudent(p, s) ==
    /\ pc[p] = "fin_loop"
    /\ s \in local[p].todo
    /\ LET r == local[p].room
           qs == local[p].questions
           rrows == results[r][s]
           srows == sheets[r][s]
       IN  local' = [local EXCEPT
              ![p].todo = @ \ {s},
              ![p].pending = @ \o StagedResult(s, rrows, FinalizeResult(rrows, qs))
                               \o StagedSheet(s, srows, FinalizeSheet(rrows, srows, qs, now))]
    /\ UNCHANGED <<now, is_active, quiz, quiz_start_time, students, room_students, results, sheets, lastOp, pc, nreq, norm>>

\* the commit that ends finalize_room_submissions
FinCommit(p) ==
    /\ pc[p] = "fin_loop"
    /\ FinalizeDone(local[p].todo)
    /\ results' = CommitResults(local[p].room, local[p].pending)
    /\ sheets' = CommitSheets(local[p].room, local[p].pending)
    /\ pc' = [pc EXCEPT ![p] = "idle"]
    /\ local' = [local EXCEPT ![p] = IdleLocal]
    /\ lastOp' = "fin_commit"
    /\ UNCHANGED <<now, is_active, quiz, quiz_start_time, students, room_students, nreq, norm>>

\* finalize raises (a failed statement or commit): the caller's "except: pass"
\* swallows it and the request ends, its session rolled back
FinFail(p) ==
    /\ pc[p] \in {"fin_load", "fin_loop"}
    /\ pc' = [pc EXCEPT ![p] = "idle"]
    /\ local' = [local EXCEPT ![p] = IdleLocal]
    /\ lastOp' = "fin_fail"
    /\ UNCHANGED <<now, is_active, quiz, quiz_start_time, students, room_students, results, sheets, nreq, norm>>

\* start_quiz_student up to "record start time": the guards, the questions and
\* the student's row are read, the new row or the started stamp is staged
ViewBegin(p, s, r, method, form) ==
    /\ FreeProc(p)
    /\ nreq < MaxRequests
    /\ nreq' = nreq + 1
    /\ CanTakeQuiz(s, r)
    /\ QuestionsParse(r)
    /\ pc' = [pc EXCEPT ![p] = "view_start"]
    /\ local' = [local EXCEPT ![p] =
            [IdleLocal EXCEPT !.room = r, !.student = s, !.method = method,
                              !.form = form, !.questions = QuestionsOf(r),
                              !.row = IF results[r][s] = <<>> THEN 0 ELSE 1,
                              !.pending = StagedResult(s, results[r][s],
                                             RecordStart(results[r][s], now))]]
    /\ UNCHANGED <<now, is_active, quiz, quiz_start_time, students, room_students, results, sheets, lastOp, norm>>

\* the commit after "record start time"; a GET then checks the remaining time
ViewCommitStart(p) ==
    /\ pc[p] = "view_start"
    /\ LET r == local[p].room
           s == local[p].student
           res == CommitResults(r, local[p].pending)
           row == IF local[p].row = 0 THEN Len(res[r][s]) ELSE local[p].row
       IN  /\ results' = res
           /\ IF local[p].method = "POST"
              THEN /\ pc' = [pc EXCEPT ![p] = "post_stage"]
                   /\ local' = [local EXCEPT ![p].pending = <<>>, ![p].row = row]
                   /\ UNCHANGED lastOp
              ELSE IF Expired(r)
                   THEN /\ pc' = [pc EXCEPT ![p] = "fin_load"]
                        /\ local' = [local EXCEPT ![p] = [IdleLocal EXCEPT !.room = r]]
                        /\ UNCHANGED lastOp
                   ELSE /\ pc' = [pc EXCEPT ![p] = "idle"]
                        /\ local' = [local EXCEPT ![p] = IdleLocal]
                        /\ lastOp' = "get_quiz"
    /\ UNCHANGED <<now, is_active, quiz, quiz_start_time, students, room_students, sheets, nreq, norm>>

\* the POST branch up to its commit: score and answers are set on the row,
\* the sheet is looked up and created or updated in the session (the form
\* carries no auto_submit_reason)
PostStage(p) ==
    /\ pc[p] = "post_stage"
    /\ LET r == local[p].room
           s == local[p].student
           qs == local[p].questions
           answers == PostedAnswers(local[p].form, qs)
           srows == sheets[r][s]
           mine == [score |-> Score(answers, qs), answers_json |-> answers, started |-> None]
       IN  local' = [local EXCEPT ![p].pending =
              <<[tbl |-> "result", student |-> s, kind |-> "update", idx |-> local[p].row,
                 cols |-> {"score", "answers_json"}, row |-> mine]>>
              \o StagedSheet(s, srows, PostedSheet(srows, answers, qs, NoReason, now))]
    /\ pc' = [pc EXCEPT ![p] = "post_commit"]
    /\ UNCHANGED <<now, is_active, quiz, quiz_start_time, students, room_students, results, sheets, lastOp, nreq, norm>>

\* the commit that ends the POST branch
PostCommit(p) ==
    /\ pc[p] = "post_commit"
    /\ results' = CommitResults(local[p].room, local[p].pending)
    /\ sheets' = CommitSheets(local[p].room, local[p].pending)
    /\ pc' = [pc EXCEPT ![p] = "idle"]
    /\ local' = [local EXCEPT ![p] = IdleLocal]
    /\ lastOp' = "post"
    /\ UNCHANGED <<now, is_active, quiz, quiz_start_time, students, room_students, nreq, norm>>

\* join_room up to its commit: the active room is found and its members are
\* read; a student who is not among them is appended to room.students
JoinBegin(p, s, r) ==
    /\ FreeProc(p)
    /\ nreq < MaxRequests
    /\ nreq' = nreq + 1
    /\ ActiveRoom(r)
    /\ IF s \in students[r]
       THEN /\ lastOp' = "setup"
            /\ UNCHANGED <<pc, local>>
       ELSE /\ pc' = [pc EXCEPT ![p] = "join_commit"]
            /\ local' = [local EXCEPT ![p] = [IdleLocal EXCEPT !.room = r, !.student = s]]
            /\ UNCHANGED lastOp
    /\ UNCHANGED <<now, is_active, quiz, quiz_start_time, students, room_students, results, sheets, norm>>

\* the commit of join_room: INSERT INTO room_students
JoinCommit(p) ==
    /\ pc[p] = "join_commit"
    /\ room_students' = [room_students EXCEPT ![local[p].room][local[p].student] = @ + 1]
    /\ students' = [students EXCEPT ![local[p].room] = @ \cup {local[p].student}]
    /\ pc' = [pc EXCEPT ![p] = "idle"]
    /\ local' = [local EXCEPT ![p] = IdleLocal]
    /\ lastOp' = "setup"
    /\ UNCHANGED <<now, is_active, quiz, quiz_start_time, results, sheets, nreq, norm>>

\* interleaved join requests, and the teacher closing the room
NextJoin ==
    \/ \E p \in Procs, s \in Students, r \in Rooms : JoinBegin(p, s, r)
    \/ \E p \in Procs : JoinCommit(p)
    \/ \E r \in Rooms : CloseRoom(r)
    \/ \E s \in Students, r \in Rooms : JoinDenied(s, r)

SpecJoin == Init /\ [][NextJoin]_vars

\* The setting of the interleaved requests: one upload of a two-question quiz,
\* one start, for 0 minutes (over at once) or for 1; the clock stands still.
NextConc ==
    \/ \E s \in Students, r \in Rooms : JoinRoom(s, r)
    \/ \E r \in Rooms : quiz[r] = None /\ CreateQuiz(r, <<Qa, Qb>>)
    \/ \E r \in Rooms, m \in {0} \cup StartMinutes :
          quiz_start_time[r] = None /\ StartQuiz(r, m)
    \/ \E p \in Procs, r \in Rooms : ConcClose(p, r)
    \/ \E p \in Procs : FinLoad(p)
    \/ \E p \in Procs, s \in Students : FinStudent(p, s)
    \/ \E p \in Procs : FinCommit(p)
    \/ \E p \in Procs : FinFail(p)
    \/ \E p \in Procs, s \in Students, r \in Rooms, f \in LifecycleForms :
          \/ ViewBegin(p, s, r, "GET", <<>>)
          \/ ViewBegin(p, s, r, "POST", f)
    \/ \E p \in Procs : ViewCommitStart(p)
    \/ \E p \in Procs : PostStage(p)
    \/ \E p \in Procs : PostCommit(p)

SpecConc == Init /\ [][NextConc]_vars

\* ---------------------------------------------------------------- claims
\* vocabulary of the claims, stated on the persisted data alone
HasSubmitted(rrows) ==
    rrows # <<>> /\ rrows[1].answers_json # <<>>

AllUnanswered(n) ==
    [i \in 1..n |-> -1]

\* now >= quiz_start_time + duration
TimeIsUp(r) ==
    now >= quiz_start_time[r][1] + quiz[r][1].duration * SecondsPerMinute

\* a step in which finalize_room_submissions(room r) runs
FinalizeStep(r) ==
    \/ CloseRoomPost(r)
    \/ \E v \in Students : StudentGet(v, r) /\ TimeIsUp(r)

\* C1: a finalize of a room, from the close action or from the expiry path,
\* leaves the SubmissionRecord (score, answers, started) and the AnswerSheet of
\* every member whose answers are already non-empty as they were.
C1_FinalizeSkipsSubmitted ==
    [][\A r \in Rooms : \A s \in students[r] :
          HasSubmitted(results[r][s]) =>
            /\ CloseRoomPost(r) =>
                 /\ results'[r][s] = results[r][s]
                 /\ sheets'[r][s] = sheets[r][s]
            /\ \A v \in Students : (StudentGet(v, r) /\ TimeIsUp(r)) =>
                 /\ sheets'[r][s] = sheets[r][s]
                 /\ results'[r][s][1].score = results[r][s][1].score
                 /\ results'[r][s][1].answers_json = results[r][s][1].answers_json
                 /\ Len(results'[r][s]) = Len(results[r][s])
                 \* the view itself stamps the visitor's first visit
                 /\ (v # s \/ results[r][s][1].started # None) =>
                        results'[r][s][1].started = results[r][s][1].started]_vars

\* C1 witness: the room was just closed by close_room_post while one member
\* held a scored manual submission and another was auto-submitted.
C1_Witness ==
    /\ lastOp = "close_room_post"
    /\ \E r \in Rooms : \E s1, s2 \in students[r] :
          /\ s1 # s2
          /\ HasSubmitted(results[r][s1])
          /\ results[r][s1][1].score > 0
          /\ sheets[r][s1] # <<>>
          /\ sheets[r][s1][1].auto_submit_reason # "auto"
          /\ HasSubmitted(results[r][s2])
          /\ results[r][s2][1].started = None
          /\ sheets[r][s2] # <<>>
          /\ sheets[r][s2][1].auto_submit_reason = "auto"

\* C2: finalize run twice in a row on a room (any quiz, also one without
\* questions) leaves the records and sheets after the second run identical to
\* those after the first, and adds no row.
C2_FinalizeTwiceIdentical ==
    [][\A r \in Rooms :
          (lastOp \in {"close_room_post", "get_expired"} /\ CloseRoomPost(r)) =>
             /\ results' = results
             /\ sheets' = sheets]_vars

\* the state finalize must leave a not-yet-submitted member's record in
AutoSubmittedRecord(rrows, n) ==
    /\ Len(rrows) = 1
    /\ rrows[1].score = 0
    /\ rrows[1].answers_json = AllUnanswered(n)

\* the sheet finalize must leave for a not-yet-submitted member, its reason aside
AutoSubmittedSheet(srows, n) ==
    /\ Len(srows) = 1
    /\ srows[1].score = 0
    /\ Len(srows[1].details_json) = n
    /\ \A i \in 1..n :
          /\ srows[1].details_json[i].student_choice = -1
          /\ srows[1].details_json[i].correct = FALSE

\* C3 as stated: after a finalize of a room with a quiz, every member who had
\* no record or empty answers has score 0, every answer -1, and a sheet marked
\* "auto" with score 0 and every entry unanswered and wrong.
C3_FinalizeAutoSubmits ==
    [][\A r \in Rooms : \A s \in students[r] :
          (quiz[r] # None /\ FinalizeStep(r) /\ ~HasSubmitted(results[r][s])) =>
             /\ AutoSubmittedRecord(results'[r][s], Len(quiz[r][1].questions))
             /\ AutoSubmittedSheet(sheets'[r][s], Len(quiz[r][1].questions))
             /\ sheets'[r][s][1].auto_submit_reason = "auto"]_vars

\* C3 amended: the same, except that a sheet the member already had keeps its
\* reason when that reason is non-empty; only otherwise is it marked "auto".
C3_FinalizeAutoSubmitsKeepingReason ==
    [][\A r \in Rooms : \A s \in students[r] :
          (quiz[r] # None /\ FinalizeStep(r) /\ ~HasSubmitted(results[r][s])) =>
             /\ AutoSubmittedRecord(results'[r][s], Len(quiz[r][1].questions))
             /\ AutoSubmittedSheet(sheets'[r][s], Len(quiz[r][1].questions))
             /\ sheets'[r][s][1].auto_submit_reason =
                  IF sheets[r][s] # <<>>
                     /\ sheets[r][s][1].auto_submit_reason \notin {NoReason, ""}
                  THEN sheets[r][s][1].auto_submit_reason
                  ELSE "auto"]_vars

\* C3 witness: a finalize has just auto-submitted a member of a two-question
\* quiz who never opened it.
C3_Witness ==
    /\ lastOp \in {"close_room_post", "get_expired"}
    /\ \E r \in Rooms : \E s \in students[r] :
          /\ quiz[r] # None
          /\ Len(quiz[r][1].questions) = 2
          /\ results[r][s] # <<>>
          /\ results[r][s][1].started = None
          /\ results[r][s][1].answers_json = <<-1, -1>>
          /\ sheets[r][s] # <<>>
          /\ sheets[r][s][1].auto_submit_reason = "auto"
          /\ sheets[r][s][1].created_at = now

\* C4: a submit made when the time is up is not accepted: the posted values
\* do not become the student's score and answers; the student ends as the
\* finalizer leaves them (a standing submission kept, else score 0, all -1).
C4_LateSubmitRejected ==
    [][\A r \in Rooms : \A s \in Students : \A f \in Forms : \A a \in Reasons :
          (StudentPost(s, r, f, a) /\ TimeIsUp(r)) =>
             IF HasSubmitted(results[r][s])
             THEN /\ results'[r][s][1].score = results[r][s][1].score
                  /\ results'[r][s][1].answers_json = results[r][s][1].answers_json
             ELSE AutoSubmittedRecord(results'[r][s], Len(quiz[r][1].questions))]_vars

\* C5: a member's GET of the quiz-taking view after the time is up finalizes
\* the whole room: every member who had not submitted, the visitor or not,
\* then has a zero-score, all-unanswered record and sheet.
C5_ExpiredViewFinalizesRoom ==
    [][\A r \in Rooms : \A v \in Students :
          (StudentGet(v, r) /\ TimeIsUp(r)) =>
             \A s \in students[r] :
                ~HasSubmitted(results[r][s]) =>
                   /\ AutoSubmittedRecord(results'[r][s], Len(quiz[r][1].questions))
                   /\ AutoSubmittedSheet(sheets'[r][s], Len(quiz[r][1].questions))]_vars

\* C5 witness: in a room that was never closed, an expired view has just
\* run and a member who never opened the quiz is auto-submitted.
C5_Witness ==
    /\ lastOp = "get_expired"
    /\ \E r \in Rooms : \E s \in students[r] :
          /\ is_active[r]
          /\ results[r][s] # <<>>
          /\ results[r][s][1].started = None
          /\ results[r][s][1].answers_json = <<-1, -1>>
          /\ sheets[r][s] # <<>>
          /\ sheets[r][s][1].created_at = now

\* C6: after a close-room action, by the GET route or by the POST route, the
\* room is inactive and, when it has a quiz, every member has a submitted
\* record (answers for every question).
C6_CloseFinalizes ==
    lastOp \in {"close_room", "close_room_post"} =>
       \A r \in Rooms :
          /\ ~is_active[r]
          /\ quiz[r] # None =>
               \A s \in students[r] :
                  /\ results[r][s] # <<>>
                  /\ Len(results[r][s][1].answers_json) = Len(quiz[r][1].questions)

\* C7: in every reachable state, interleaved requests included, a (student,
\* room) pair has at most one StudentQuizResult row and at most one
\* AnswerSheet row.
C7_OneRowPerPair ==
    \A r \in Rooms : \A s \in Students :
       /\ Len(results[r][s]) <= 1
       /\ Len(sheets[r][s]) <= 1

\* C8: when a finalize interleaves with a member's manual submit, the commit
\* of the finalize never overwrites the score and answers of a submission that
\* is already committed.
C8_FinalizeKeepsCommittedSubmit ==
    [][\A p \in Procs : FinCommit(p) =>
          \A s \in Students :
             HasSubmitted(results[local[p].room][s]) =>
                /\ results'[local[p].room][s][1].score
                      = results[local[p].room][s][1].score
                /\ results'[local[p].room][s][1].answers_json
                      = results[local[p].room][s][1].answers_json]_vars

\* C9: finalize commits its writes as one unit.  No step of a finalize before
\* its commit, and no failing finalize, changes a record or a sheet that
\* another request can read; a failed call leaves nothing staged and its
\* worker free for a retry; the commit leaves every member the call read with
\* a submitted record and a sheet, none of them half-way.
C9_FinalizeCommitsAtOnce ==
    [][\A p \in Procs :
          /\ (FinLoad(p) \/ FinFail(p) \/ \E s \in Students : FinStudent(p, s)) =>
                /\ results' = results
                /\ sheets' = sheets
          /\ FinFail(p) =>
                /\ pc'[p] = "idle"
                /\ local'[p].pending = <<>>
          /\ FinCommit(p) =>
                \A s \in local[p].members :
                   /\ \E i \in 1..Len(results'[local[p].room][s]) :
                         results'[local[p].room][s][i].answers_json # <<>>
                   /\ sheets'[local[p].room][s] # <<>>]_vars

\* C9 witness: one commit of a finalize has just auto-submitted two members
\* who had never opened the quiz.
C9_Witness ==
    /\ lastOp = "fin_commit"
    /\ \E r \in Rooms : \E s1, s2 \in students[r] :
          /\ s1 # s2
          /\ \A s \in {s1, s2} :
                /\ Len(results[r][s]) = 1
                /\ results[r][s][1].started = None
                /\ results[r][s][1].answers_json = <<-1, -1>>
                /\ Len(sheets[r][s]) = 1
                /\ sheets[r][s][1].auto_submit_reason = "auto"
                /\ sheets[r][s][1].created_at = now

\* the choice a form carries for question index i: -1 when absent
ChoiceIn(f, i) ==
    IF i \in DOMAIN f THEN f[i] ELSE -1

\* C10: after a manual submit the stored score is the number of question
\* indices whose submitted choice is the question's correct index, and the
\* sheet has one entry per question, with the submitted choice (-1 when
\* absent) and correct exactly when the choice is the correct index.
C10_SubmitScores ==
    [][\A r \in Rooms : \A s \in Students : \A f \in Forms : \A a \in Reasons :
          StudentPost(s, r, f, a) =>
             LET qs == quiz[r][1].questions
                 right == {i \in 0..(Len(qs) - 1) : ChoiceIn(f, i) = qs[i + 1].answer}
                 sheet == sheets'[r][s][1]
             IN  /\ results'[r][s][1].score = Cardinality(right)
                 /\ Len(sheet.details_json) = Len(qs)
                 /\ \A i \in 0..(Len(qs) - 1) :
                       /\ sheet.details_json[i + 1].index = i
                       /\ sheet.details_json[i + 1].student_choice = ChoiceIn(f, i)
                       /\ sheet.details_json[i + 1].correct = (i \in right)]_vars

\* C10 witness: a submit has just stored a two-question sheet with the first
\* answer right and the second left unanswered, score 1.
C10_Witness ==
    /\ lastOp = "post"
    /\ \E r \in Rooms : \E s \in students[r] :
          /\ results[r][s] # <<>>
          /\ results[r][s][1].score = 1
          /\ results[r][s][1].answers_json = <<1, -1>>
          /\ sheets[r][s] # <<>>
          /\ Len(sheets[r][s][1].details_json) = 2
          /\ sheets[r][s][1].details_json[1].correct
          /\ ~sheets[r][s][1].details_json[2].correct
          /\ sheets[r][s][1].details_json[2].student_choice = -1

\* the startedAt of a pair: that of its record, absent without a record
StartedOf(rrows) ==
    IF rrows = <<>> THEN None ELSE rrows[1].started

\* the step handled a submit / an upload (what the history records of it)
SubmitHandled ==
    lastOp' \in {"post", "post_again", "post_late"}

UploadHandled ==
    lastOp' \in {"setup", "upload_invalid"}

\* C11: a submit by a student who already has a record and a sheet for the
\* room is accepted: its score and answers replace the earlier ones in the
\* record and in the sheet, and no row is added for the pair.
C11_ResubmitReplaces ==
    [][\A r \in Rooms : \A s \in Students : \A f \in Forms : \A a \in Reasons :
          (/\ results[r][s] # <<>>
           /\ sheets[r][s] # <<>>
           /\ SubmitHandled
           /\ StudentPost(s, r, f, a)) =>
             LET qs == quiz[r][1].questions
                 right == {i \in 0..(Len(qs) - 1) : ChoiceIn(f, i) = qs[i + 1].answer}
             IN  /\ Len(results'[r][s]) = Len(results[r][s])
                 /\ Len(sheets'[r][s]) = Len(sheets[r][s])
                 /\ results'[r][s][1].score = Cardinality(right)
                 /\ results'[r][s][1].answers_json = [i \in 1..Len(qs) |-> ChoiceIn(f, i - 1)]
                 /\ sheets'[r][s][1].score = Cardinality(right)
                 /\ Len(sheets'[r][s][1].details_json) = Len(qs)
                 /\ \A i \in 1..Len(qs) :
                       sheets'[r][s][1].details_json[i].student_choice = ChoiceIn(f, i - 1)]_vars

\* C11 witness: a submit has just replaced an earlier submit of the same
\* student (the sheet was there before it, and only a submit leaves a sheet
\* without a reason): one record, one sheet, both with the new score 2.
C11_Witness ==
    /\ lastOp = "post_again"
    /\ \E r \in Rooms : \E s \in students[r] :
          /\ Len(results[r][s]) = 1
          /\ Len(sheets[r][s]) = 1
          /\ sheets[r][s][1].auto_submit_reason = NoReason
          /\ results[r][s][1].answers_json = <<1, 0>>
          /\ results[r][s][1].score = 2
          /\ sheets[r][s][1].score = 2

\* C12: startedAt of a pair is written at most once and only by a GET of the
\* quiz-taking view: once set it never changes, and a step that sets it is a
\* GET of that student, never a submit.
C12_StartedOnlyByGet ==
    [][\A r \in Rooms : \A s \in Students :
          /\ StartedOf(results[r][s]) # None =>
                StartedOf(results'[r][s]) = StartedOf(results[r][s])
          /\ StartedOf(results'[r][s]) # StartedOf(results[r][s]) =>
                lastOp' \in {"get_quiz", "get_expired"}]_vars

\* C13 as stated: a member's GET of the view of a room with a quiz takes the
\* expiry path exactly when the remaining time max(0, duration*60 - (now -
\* quiz_start_time)) is 0, which is when now >= quiz_start_time + duration*60,
\* and also when quiz_start_time is absent.
C13_RemainingAsStated ==
    [][\A r \in Rooms : \A s \in students[r] :
          (quiz[r] # None /\ (StudentGet(s, r) \/ ViewDenied(s, r))) =>
             ((lastOp' = "get_expired") <=>
                 (\/ quiz_start_time[r] = None
                  \/ now >= quiz_start_time[r][1] + quiz[r][1].duration * 60))]_vars

\* C13 amended: with quiz_start_time set, the remaining time is
\* max(0, duration*60 - (now - quiz_start_time)), it is 0 exactly when
\* now >= quiz_start_time + duration*60, and the GET takes the expiry path
\* exactly then; with quiz_start_time absent no remaining time is computed:
\* the view is refused and nothing is written.
C13_RemainingWhenStarted ==
    [][\A r \in Rooms : \A s \in students[r] :
          quiz[r] # None =>
             /\ StudentGet(s, r) =>
                   LET start == quiz_start_time[r][1]
                       left == quiz[r][1].duration * 60 - (now - start)
                       remaining == Remaining(now, start, quiz[r][1].duration)
                   IN  /\ remaining = IF left > 0 THEN left ELSE 0
                       /\ (remaining = 0) <=> (now >= start + quiz[r][1].duration * 60)
                       /\ (lastOp' = "get_expired") <=> (remaining = 0)
             /\ (quiz_start_time[r] = None /\ ViewDenied(s, r)) =>
                   /\ lastOp' = "view_denied"
                   /\ results' = results
                   /\ sheets' = sheets]_vars

\* C13 witness: a GET has just found the time up at the very second
\* quiz_start_time + duration*60.
C13_Witness ==
    /\ lastOp = "get_expired"
    /\ \E r \in Rooms :
          /\ quiz[r] # None
          /\ quiz_start_time[r] # None
          /\ quiz[r][1].duration > 0
          /\ now = quiz_start_time[r][1] + quiz[r][1].duration * 60

\* C14: extend_quiz_post with n minutes on a started quiz increases the
\* remaining time by n*60 seconds at that instant, by shifting
\* quiz_start_time back n minutes and leaving the duration unchanged.
C14_ExtendAddsTime ==
    [][\A r \in Rooms : \A n \in ExtendMinutes :
          ExtendQuizPost(r, n) =>
             /\ quiz' = quiz
             /\ quiz_start_time'[r][1] = quiz_start_time[r][1] - n * 60
             /\ Remaining(now, quiz_start_time'[r][1], quiz[r][1].duration)
                  = Remaining(now, quiz_start_time[r][1], quiz[r][1].duration) + n * 60]_vars

\* C15: in every reachable state a room has quiz_start_time set only if it
\* has an assigned quiz.
C15_StartOnlyWithQuiz ==
    \A r \in Rooms : quiz_start_time[r] # None => quiz[r] # None

\* C15 witness: a quiz was uploaded and then started after the clock advanced.
C15_Witness ==
    /\ lastOp = "setup"
    /\ \E r \in Rooms :
          /\ quiz[r] # None
          /\ now > 0
          /\ quiz_start_time[r] = Some(now)

C17_JoinIdempotent ==
    \A r \in Rooms : \A s \in Students : room_students[r][s] <= 1

\* every question has a text and an answer index within its options
WellFormedQuestions(qs) ==
    \A i \in 1..Len(qs) :
       /\ qs[i].text # ""
       /\ 0 <= qs[i].answer
       /\ qs[i].answer < Len(qs[i].options)

\* the persisted state other than the quiz and the history
FrameOfUpload ==
    <<is_active, quiz_start_time, students, room_students, results, sheets>>

\* C18: an upload that is not valid JSON or fails normalization persists
\* nothing (no quiz, the room's quiz unchanged); an accepted upload persists
\* what the normalizer returned, and every persisted quiz has well-formed
\* questions.
C18_InvalidUploadPersistsNothing ==
    [][\A r \in Rooms :
          /\ \A raw \in RawUploads :
                (UploadHandled /\ UploadQuiz(r, raw)) =>
                   IF raw.json /\ NormalizeQuestions(raw).ok
                   THEN /\ quiz'[r] # None
                        /\ quiz'[r][1].questions = NormalizeQuestions(raw).out
                   ELSE /\ quiz' = quiz
                        /\ FrameOfUpload' = FrameOfUpload
                        /\ lastOp' = "upload_invalid"
          /\ quiz'[r] # None => WellFormedQuestions(quiz'[r][1].questions)]_vars

\* C18 witness: an upload has just been refused in a room that holds the
\* two-question quiz of an earlier, accepted upload.
C18_Witness ==
    /\ lastOp = "upload_invalid"
    /\ \E r \in Rooms :
          /\ quiz[r] # None
          /\ quiz[r][1].questions = <<Qa, Qb>>

\* an element whose answer resolves to an index outside its options
ResolvesOutOfRange(q) ==
    QuestionError(q) = "out of range"

\* the list a call returned has one question per element, in input order,
\* each with its answer index within its options
ReturnsInOrderInRange(raw, res) ==
    res.ok =>
       /\ Len(res.out) = Len(raw.items)
       /\ \A i \in 1..Len(res.out) :
             /\ res.out[i].text = TextOf(raw.items[i])
             /\ 0 <= res.out[i].answer
             /\ res.out[i].answer < Len(res.out[i].options)

\* C19 as stated: a returned list has one question per input element in
\* input order, each answer index within its options; every input element
\* whose resolved index is out of range makes the call fail with an error
\* naming that element's index.
C19_NormalizeInRangeOrIndexedError ==
    [][Normalize =>
          /\ ReturnsInOrderInRange(norm.raw, norm'.result)
          /\ \A i \in 1..Len(norm.raw.items) :
                ResolvesOutOfRange(norm.raw.items[i]) =>
                   /\ ~norm'.result.ok
                   /\ norm'.result.index = i - 1]_vars

\* C19 amended: the same, except that the error names the index of the first
\* element that is refused: that of the out-of-range element when no earlier
\* element is refused, with the out-of-range message.
C19_NormalizeInRangeOrFirstError ==
    [][Normalize =>
          /\ ReturnsInOrderInRange(norm.raw, norm'.result)
          /\ \A i \in 1..Len(norm.raw.items) :
                ResolvesOutOfRange(norm.raw.items[i]) =>
                   /\ ~norm'.result.ok
                   /\ norm'.result.index >= 0
                   /\ norm'.result.index <= i - 1
                   /\ \A j \in 1..norm'.result.index : QuestionError(norm.raw.items[j]) = ""
                   /\ QuestionError(norm.raw.items[norm'.result.index + 1]) = norm'.result.error
                   /\ (\A j \in 1..(i - 1) : QuestionError(norm.raw.items[j]) = "") =>
                         /\ norm'.result.index = i - 1
                         /\ norm'.result.error = "out of range"]_vars

\* C19 witness: a call on two elements, the second one out of range, has
\* failed with the out-of-range error naming index 1.
C19_Witness ==
    /\ norm.done
    /\ ~norm.result.ok
    /\ Len(norm.raw.items) = 2
    /\ QuestionError(norm.raw.items[1]) = ""
    /\ norm.result.error = "out of range"
    /\ norm.result.index = 1

\* C20: a request to the quiz-taking view, GET or POST, by a caller who is
\* not a member, or for a room without a quiz or without a start time, is
\* refused and changes no record and no sheet.
C20_ViewNeedsMemberQuizStart ==
    [][\A r \in Rooms : \A s \in Students :
          ~(s \in students[r] /\ quiz[r] # None /\ quiz_start_time[r] # None) =>
             ((\/ ViewDenied(s, r)
               \/ StudentGet(s, r)
               \/ \E f \in Forms, a \in Reasons : StudentPost(s, r, f, a)) =>
                /\ results' = results
                /\ sheets' = sheets
                /\ lastOp' = "view_denied")]_vars

\* C20 witness: a member has just been refused the view of a room whose
\* quiz is uploaded but not started; the member has no record and no sheet.
C20_Witness ==
    /\ lastOp = "view_denied"
    /\ \E r \in Rooms : \E s \in students[r] :
          /\ quiz[r] # None
          /\ quiz_start_time[r] = None
          /\ results[r][s] = <<>>
          /\ sheets[r][s] = <<>>

\* everything the requests persist
Persisted ==
    <<is_active, quiz, quiz_start_time, students, room_students, results, sheets>>

\* C21: while a room's quiz_start_time and duration stay as they are, the
\* remaining time never increases as time advances (for instants
\* now1 <= now2, remaining(now2) <= remaining(now1)), and a quiz that has
\* expired stays expired.
C21_RemainingNeverIncreases ==
    [][\A r \in Rooms :
          (/\ quiz[r] # None
           /\ quiz_start_time[r] # None
           /\ quiz'[r] # None
           /\ quiz_start_time'[r] = quiz_start_time[r]
           /\ quiz'[r][1].duration = quiz[r][1].duration) =>
             LET start == quiz_start_time[r][1]
                 d == quiz[r][1].duration
             IN  /\ now' >= now
                 /\ Remaining(now', start, d) <= Remaining(now, start, d)
                 /\ Remaining(now, start, d) = 0 => Remaining(now', start, d) = 0
                 /\ \A d1, d2 \in {0, 1, 59, 60, 61, 120} :
                       d1 <= d2 =>
                          Remaining(now + d2, start, d) <= Remaining(now + d1, start, d)]_vars

\* C21 witness: time has advanced over a started quiz whose start and
\* duration are those of its start; the quiz, running before, is now expired.
C21_Witness ==
    /\ now > 0
    /\ \E r \in Rooms :
          /\ quiz[r] # None
          /\ quiz_start_time[r] = Some(0)
          /\ quiz[r][1].duration > 0
          /\ now >= quiz[r][1].duration * 60

\* C23: the passage of time alone changes no persisted state, and a member
\* without a submission gets one only in a step that handles a student's
\* request to the quiz-taking view or a close of the room.
C23_ExpiryIsLazy ==
    [][/\ now' # now => Persisted' = Persisted
       /\ \A r \in Rooms : \A s \in students[r] :
             (~HasSubmitted(results[r][s]) /\ HasSubmitted(results'[r][s])) =>
                /\ now' = now
                /\ lastOp' \in {"get_expired", "close_room_post",
                                "post", "post_again", "post_late"}]_vars

\* C23 witness: a quiz expired a full minute ago and a member of its room
\* still has no record.
C23_Witness ==
    \E r \in Rooms : \E s \in students[r] :
       /\ quiz[r] # None
       /\ quiz_start_time[r] # None
       /\ now >= quiz_start_time[r][1] + quiz[r][1].duration * 60 + 60
       /\ results[r][s] = <<>>
       /\ sheets[r][s] = <<>>

\* C26: in every reachable state a sheet marked "auto" has score 0 and
\* every entry's student_choice = -1.
C26_AutoSheetIsBlank ==
    \A r \in Rooms : \A s \in Students :
       (sheets[r][s] # <<>> /\ sheets[r][s][1].auto_submit_reason = "auto") =>
          /\ sheets[r][s][1].score = 0
          /\ \A i \in 1..Len(sheets[r][s][1].details_json) :
                sheets[r][s][1].details_json[i].student_choice = -1

\* C27: in every reachable state in which a student has a record with
\* non-empty answers and a sheet for the same room, the two scores are equal
\* and the number of sheet entries marked correct is that score.
C27_RecordAndSheetAgree ==
    \A r \in Rooms : \A s \in Students :
       (HasSubmitted(results[r][s]) /\ sheets[r][s] # <<>>) =>
          /\ results[r][s][1].score = sheets[r][s][1].score
          /\ Cardinality({i \in 1..Len(sheets[r][s][1].details_json) :
                             sheets[r][s][1].details_json[i].correct})
               = results[r][s][1].score

\* C27 witness: a student holds a record and a sheet, both with score 1,
\* the sheet with one entry marked correct and one not.
C27_Witness ==
    \E r \in Rooms : \E s \in students[r] :
       /\ HasSubmitted(results[r][s])
       /\ sheets[r][s] # <<>>
       /\ results[r][s][1].score = 1
       /\ sheets[r][s][1].score = 1
       /\ Len(sheets[r][s][1].details_json) = 2
       /\ sheets[r][s][1].details_json[1].correct # sheets[r][s][1].details_json[2].correct

\* C28: once a room has been closed with close_room_post, a student's
\* request to the quiz-taking view changes no member's score or answers.
C28_ClosedRoomFrozen ==
    [][\A r \in Rooms :
          (/\ lastOp = "close_room_post"
           /\ ~is_active[r]
           /\ lastOp' \in {"get_quiz", "get_expired", "post", "post_again", "post_late"}) =>
             \A s \in students[r] :
                (results[r][s] # <<>>) =>
                   /\ results'[r][s][1].score = results[r][s][1].score
                   /\ results'[r][s][1].answers_json = results[r][s][1].answers_json]_vars

\* C29 as stated: a finalize auto-submits members only in a room whose quiz
\* has been started; it changes nothing in a room whose quiz was never
\* started or that has no quiz.
C29_FinalizeOnlyStarted ==
    [][\A r \in Rooms :
          (CloseRoomPost(r) /\ (quiz[r] = None \/ quiz_start_time[r] = None)) =>
             /\ results' = results
             /\ sheets' = sheets]_vars

\* C29 amended: a finalize changes nothing in a room with no assigned quiz;
\* in a room with a quiz it auto-submits every member who has not
\* submitted, whether or not the quiz was ever started.
C29_FinalizeWheneverQuiz ==
    [][\A r \in Rooms :
          CloseRoomPost(r) =>
             IF quiz[r] = None
             THEN /\ results' = results
                  /\ sheets' = sheets
             ELSE \A s \in students[r] :
                     ~HasSubmitted(results[r][s]) =>
                        /\ AutoSubmittedRecord(results'[r][s], Len(quiz[r][1].questions))
                        /\ AutoSubmittedSheet(sheets'[r][s], Len(quiz[r][1].questions))]_vars

\* C29 witness: close_room_post has just auto-submitted a member of a room
\* whose quiz was uploaded and never started.
C29_Witness ==
    /\ lastOp = "close_room_post"
    /\ \E r \in Rooms : \E s \in students[r] :
          /\ quiz[r] # None
          /\ quiz_start_time[r] = None
          /\ results[r][s] # <<>>
          /\ results[r][s][1].answers_json = <<-1, -1>>
          /\ sheets[r][s] # <<>>
          /\ sheets[r][s][1].auto_submit_reason = "auto"

\* C30: an upload with create_quiz changes only the room's quiz: its
\* quiz_start_time, is_active and membership and every record and sheet stay
\* as they are, also when the previous quiz is running, submitted or
\* finalized.
C30_UploadChangesOnlyQuiz ==
    [][\A r \in Rooms : \A qs \in QuizUploads :
          CreateQuiz(r, qs) =>
             /\ FrameOfUpload' = FrameOfUpload
             /\ quiz'[r] # None
             /\ quiz'[r][1].questions = qs]_vars

\* C30 witness: a quiz without questions has just been uploaded to a room
\* whose earlier two-question quiz is started and has a scored submission,
\* which is still there.
C30_Witness ==
    /\ lastOp = "setup"
    /\ \E r \in Rooms : \E s \in students[r] :
          /\ quiz[r] # None
          /\ quiz[r][1].questions = <<>>
          /\ quiz[r][1].duration = DefaultDuration
          /\ quiz_start_time[r] # None
          /\ results[r][s] # <<>>
          /\ results[r][s][1].answers_json = <<1, 1>>
          /\ results[r][s][1].score = 1
          /\ sheets[r][s] # <<>>

\* an element with a text and with options in one of the supported shapes
WellShaped(q) ==
    q.is_dict /\ TextOf(q) # "" /\ q.opts.kind \in {"list", "dict"}

\* the call got past element i (1-based): it returned, or it failed later
Accepted(res, i) ==
    res.ok \/ res.index > i - 1

\* the string answer of q is the literal text of one of its options
IsLiteral(q) ==
    /\ q.answer.kind = "str"
    /\ \E k \in 1..Len(OptionsList(q.opts)) : OptionsList(q.opts)[k] = q.answer.str

\* the 0-based position of the first option of q that is the text
PositionOf(q, text) ==
    (CHOOSE k \in 1..Len(OptionsList(q.opts)) :
        /\ OptionsList(q.opts)[k] = text
        /\ \A j \in 1..(k - 1) : OptionsList(q.opts)[j] # text) - 1

\* the index the stated order gives an int or string answer: a letter's
\* position, else a literal's position, else the digits' value; known is
\* FALSE for "unknown answer format"
StatedIndex(q) ==
    IF q.answer.kind = "int" THEN [known |-> TRUE, index |-> q.answer.int]
    ELSE IF StripLower(q.answer.str) \in DOMAIN LetterPos
         THEN [known |-> TRUE, index |-> LetterPos[StripLower(q.answer.str)]]
    ELSE IF IsLiteral(q) THEN [known |-> TRUE, index |-> PositionOf(q, q.answer.str)]
    ELSE IF StripLower(q.answer.str) \in DOMAIN DigitValue
         THEN [known |-> TRUE, index |-> DigitValue[StripLower(q.answer.str)]]
    ELSE [known |-> FALSE, index |-> -1]

\* a call resolves the int and string answers in the stated order: an element
\* reached by the loop is refused with "unknown answer format" or as out of
\* range, or its output carries the index of the stated order
ResolvesInStatedOrder(raw, res) ==
    \A i \in 1..Len(raw.items) :
       LET q == raw.items[i]
       IN  (/\ \A j \in 1..(i - 1) : Accepted(res, j)
            /\ WellShaped(q)
            /\ q.answer.kind \in {"int", "str"}) =>
              IF ~StatedIndex(q).known
              THEN ~res.ok /\ res.index = i - 1 /\ res.error = "has unknown answer format"
              ELSE IF StatedIndex(q).index < 0
                      \/ StatedIndex(q).index >= Len(OptionsList(q.opts))
                   THEN ~res.ok /\ res.index = i - 1 /\ res.error = "out of range"
                   ELSE /\ Accepted(res, i)
                        /\ res.ok => res.out[i].answer = StatedIndex(q).index

\* C22 as stated: string answers are resolved in the order letter, literal
\* option text, digits, else "unknown answer format"; and an answer that is
\* the literal text of an option resolves to that option's position.
C22_AnswerResolvesAsStated ==
    [][Normalize =>
          /\ ResolvesInStatedOrder(norm.raw, norm'.result)
          /\ \A i \in 1..Len(norm.raw.items) :
                (/\ \A j \in 1..(i - 1) : Accepted(norm'.result, j)
                 /\ WellShaped(norm.raw.items[i])
                 /\ IsLiteral(norm.raw.items[i])) =>
                   /\ Accepted(norm'.result, i)
                   /\ norm'.result.ok =>
                         norm'.result.out[i].answer
                            = PositionOf(norm.raw.items[i], norm.raw.items[i].answer.str)]_vars

\* C22 amended: the same order; an answer that is the literal text of an
\* option resolves to that option's position unless, stripped and
\* lower-cased, it is a single alphabetic character, which is taken as a
\* letter.
C22_AnswerResolvesLetterFirst ==
    [][Normalize =>
          /\ ResolvesInStatedOrder(norm.raw, norm'.result)
          /\ \A i \in 1..Len(norm.raw.items) :
                (/\ \A j \in 1..(i - 1) : Accepted(norm'.result, j)
                 /\ WellShaped(norm.raw.items[i])
                 /\ IsLiteral(norm.raw.items[i])
                 /\ StripLower(norm.raw.items[i].answer.str) \notin DOMAIN LetterPos) =>
                   /\ Accepted(norm'.result, i)
                   /\ norm'.result.ok =>
                         norm'.result.out[i].answer
                            = PositionOf(norm.raw.items[i], norm.raw.items[i].answer.str)]_vars

\* C22 witness: a call on one element whose answer "no" is the literal text
\* of its second option has returned index 1.
C22_Witness ==
    /\ norm.done
    /\ norm.result.ok
    /\ Len(norm.raw.items) = 1
    /\ norm.raw.items[1].answer.kind = "str"
    /\ norm.raw.items[1].answer.str = "no"
    /\ norm.result.out[1].options = <<"yes", "no">>
    /\ norm.result.out[1].answer = 1

\* --------------------------------------------------------------------- C24
\* the questions_json of the room's quiz does not parse
Damaged(r) ==
    quiz[r] # None /\ ~QuestionsParse(r)

\* C24: with a questions blob that does not parse, every operation that reads
\* it completes and takes the questions as an empty list: no request ends in a
\* fatal error, a finalization (close_room_post) gives every member without a
\* submission an auto-submitted record and sheet over zero questions, and the
\* result view renders.
C24_DamagedBlobReadAsEmpty ==
    [][\A r \in Rooms :
          Damaged(r) =>
             /\ lastOp' # "view_error"
             /\ lastOp' = "close_room_post" =>
                   \A s \in students[r] :
                      ~HasSubmitted(results[r][s]) =>
                         /\ AutoSubmittedRecord(results'[r][s], 0)
                         /\ AutoSubmittedSheet(sheets'[r][s], 0)]_vars

\* C24: the guarded read sites do degrade: a room whose blob is damaged has
\* been finalized over zero questions for a member who had not started
C24_Witness ==
    \E r \in Rooms :
       \E s \in students[r] :
          /\ Damaged(r)
          /\ Len(quiz[r][1].questions) = 2
          /\ lastOp = "close_room_post"
          /\ results[r][s] # <<>>
          /\ results[r][s][1].answers_json = <<>>
          /\ sheets[r][s] # <<>>
          /\ sheets[r][s][1].auto_submit_reason = "auto"

\* --------------------------------------------------------------------- C25
\* everything persisted for one room: its flags, quiz (duration included),
\* start time, membership, records and sheets
RoomState(o) ==
    <<is_active[o], quiz[o], quiz_start_time[o], students[o], room_students[o],
      results[o], sheets[o]>>

\* a request on room r is handled: join, upload, start, extend, close (with or
\* without finalize), quiz view (with or without finalize), submit
RequestOn(r) ==
    \/ JoinRoom(1, r)
    \/ CreateQuiz(r, <<Qa, Qb>>)
    \/ \E m \in StartMinutes : StartQuiz(r, m)
    \/ \E m \in ExtendMinutes : ExtendQuizPost(r, m)
    \/ CloseRoom(r)
    \/ CloseRoomPost(r)
    \/ StudentGet(1, r)
    \/ \E f \in LifecycleForms : StudentPost(1, r, f, NoReason)

\* C25: rooms are independent: every operation on one room (upload, start,
\* extend, close, finalize, quiz view, submit, and join) leaves the records,
\* sheets, membership, quiz and its duration, quiz_start_time and is_active of
\* every other room unchanged.
C25_RoomsIndependent ==
    [][\A r \in TwoRooms :
          RequestOn(r) =>
             \A o \in TwoRooms \ {r} : RoomState(o)' = RoomState(o)]_vars

\* C25 witness: one room has just been closed and finalized, its member
\* auto-submitted, while the same student's started, unsubmitted record in the
\* other, still active room has no sheet.
C25_Witness ==
    /\ lastOp = "close_room_post"
    /\ \E r \in TwoRooms : \E o \in TwoRooms \ {r} :
          /\ ~is_active[r]
          /\ 1 \in students[r]
          /\ sheets[r][1] # <<>>
          /\ sheets[r][1][1].auto_submit_reason = "auto"
          /\ is_active[o]
          /\ 1 \in students[o]
          /\ quiz[o] # None
          /\ quiz_start_time[o] # None
          /\ results[o][1] # <<>>
          /\ results[o][1][1].answers_json = <<>>
          /\ sheets[o][1] = <<>>
====
